---- MODULE Spec2Model ----
(***************************************************************************)
(* tools/nb_to_jl.py: the notebook-to-Julia-script converter, as a state   *)
(* machine.  One process runs main(): argument parsing, the extension      *)
(* check, the derivation of the output path, and                           *)
(* convert_notebook_to_julia(): open + read the notebook, then open the    *)
(* output for writing and write one block per code cell.                   *)
(*                                                                         *)
(* Strings that the code inspects (paths, cell sources, file text) are     *)
(* sequences of one-character strings, so that endswith, splitext and      *)
(* concatenation are computed and not assumed.  The platform is POSIX:     *)
(* os.sep is "/", there is no os.altsep, and os.linesep is "\n".           *)
(* Paths are taken not to start with "-" (argparse reads those as options) *)
(* and two distinct path strings name two distinct files (no links).       *)
(***************************************************************************)
EXTENDS Integers, Sequences, FiniteSets, TLC

VARIABLES
    argv,           \* sys.argv[1:], a sequence of strings
    pc,             \* the statement the process is at
    notebook_path,  \* main: notebook_path (<<>> while unset)
    output_path,    \* main: output_path (<<>> while unset)
    nb,             \* convert_notebook_to_julia: nb.cells once read
    idx,            \* position of the for loop over nb.cells (1-based)
    handles,        \* the open file objects, as [path, mode] records
    disk,           \* the file system: path -> file, DOMAIN = existing files
    stdout,         \* the lines written to the console
    exc,            \* the exception that ended the run ("none" if none)
    exit_status,    \* the process's exit status (-1 while running)
    runs,           \* how many times the script has been started
    \* history variables, read by the properties only
    diskPre,        \* the file system when the current run started
    opened,         \* every open() call of the current run, in order, with
                    \* whether it returned a file (ok) or raised
    history         \* one record per finished run

vars == <<argv, pc, notebook_path, output_path, nb, idx, handles, disk,
          stdout, exc, exit_status, runs, diskPre, opened, history>>

----------------------------------------------------------------------------
(* Bounds *)

MaxCells == 3

MaxRuns == 2

----------------------------------------------------------------------------
(* Strings *)

DOT_IPYNB == <<".", "i", "p", "y", "n", "b">>

DOT_JL == <<".", "j", "l">>

HELP_FLAG == <<"-", "h">>

\* str.endswith
EndsWith(s, suffix) ==
    /\ Len(s) >= Len(suffix)
    /\ SubSeq(s, Len(s) - Len(suffix) + 1, Len(s)) = suffix

\* str.rfind, 1-based; 0 when c does not occur
RFind(s, c) ==
    LET hits == {i \in 1..Len(s) : s[i] = c}
    IN  IF hits = {} THEN 0 ELSE CHOOSE i \in hits : \A j \in hits : j <= i

\* os.path.splitext on POSIX (genericpath._splitext with sep "/", extsep "."):
\* the extension starts at the last dot of the last component, unless that
\* component has only dots before it.
splitext(p) ==
    LET sepIndex == RFind(p, "/")
        dotIndex == RFind(p, ".")
    IN  IF /\ dotIndex > sepIndex
           /\ \E k \in (sepIndex + 1)..(dotIndex - 1) : p[k] # "."
        THEN <<SubSeq(p, 1, dotIndex - 1), SubSeq(p, dotIndex, Len(p))>>
        ELSE <<p, <<>>>>

----------------------------------------------------------------------------
(* Inputs *)

AcceptedPaths ==
    { <<"a">> \o DOT_IPYNB,
      DOT_IPYNB,
      <<"d", "/">> \o DOT_IPYNB,
      <<"a", ".", "b">> \o DOT_IPYNB,
      <<"d", ".", "e", "/", "a">> \o DOT_IPYNB }

RejectedPaths ==
    { <<"a", ".", "t", "x", "t">>,
      <<"a", "i", "p", "y", "n", "b">>,
      <<"a">> \o DOT_IPYNB \o <<".", "b", "a", "k">>,
      <<"a">> \o DOT_JL }

Paths == AcceptedPaths \cup RejectedPaths

Argvs ==
    {<<>>, <<HELP_FLAG>>}
        \cup {<<p>> : p \in Paths}
        \cup {<<p, HELP_FLAG>> : p \in {<<"a">> \o DOT_IPYNB}}
        \cup {<<p, p>> : p \in {<<"a">> \o DOT_IPYNB}}

\* Cell payloads: a one-line one, and one with an embedded newline and a
\* tab.  The non-code cells carry the same payloads as the code cells, so
\* that only the type tag tells them apart.
Sources == { <<"x">>, <<"y", "\n", "\t", "z">> }

Cells ==
    [cell_type : {"code"}, source : Sources]
        \cup { [cell_type |-> "markdown", source |-> <<"x">>],
               [cell_type |-> "raw", source |-> <<"y", "\n", "\t", "z">>] }

SeqsUpTo(S, n) == UNION {[1..k -> S] : k \in 0..n}

Notebooks == SeqsUpTo(Cells, MaxCells)

\* A file: a notebook document (kind "notebook", its cells) or any other
\* text (kind "text").
NotebookFile(cells) == [kind |-> "notebook", cells |-> cells, text |-> <<>>]

TextFile(text) == [kind |-> "text", cells |-> <<>>, text |-> text]

OldText == <<"o", "l", "d", "\n">>

OtherPath == <<"o", ".", "t", "x", "t">>

\* The .jl files that may exist before the first run.
JlPaths ==
    {p \o DOT_JL : p \in AcceptedPaths}
        \cup {SubSeq(p, 1, Len(p) - Len(DOT_IPYNB)) \o DOT_JL : p \in AcceptedPaths}

----------------------------------------------------------------------------
(* Files *)

AbsentFile == [kind |-> "absent", cells |-> <<>>, text |-> <<>>]

\* The file at path p of file system d (AbsentFile when there is none).
Lookup(d, p) == IF p \in DOMAIN d THEN d[p] ELSE AbsentFile

\* os.linesep
linesep == <<"\n">>

\* A text-mode stream opened with the default newline=None writes each
\* "\n" as os.linesep.
RECURSIVE TranslateNewlines(_)
TranslateNewlines(s) ==
    IF s = <<>>
    THEN <<>>
    ELSE (IF Head(s) = "\n" THEN linesep ELSE <<Head(s)>>)
             \o TranslateNewlines(Tail(s))

\* Mutant: mode 'a', an existing file keeps its content.
OpenForAppending(d, p) == IF p \in DOMAIN d THEN d ELSE (p :> TextFile(<<>>)) @@ d

\* open(path, 'w'): the file is created if absent and truncated if present.
OpenForWriting(d, p) == (p :> TextFile(<<>>)) @@ d

\* f.write(s) on the stream of path p.
FileWrite(d, p, s) == [d EXCEPT ![p].text = @ \o TranslateNewlines(s)]

\* Mutant: the payload without its separator.
BlockNoSeparator(cell) == cell.source

\* cell.source + '\n\n'
Block(cell) == cell.source \o <<"\n", "\n">>

\* Mutant: the type tag is not looked at.
IsCodeAlways(cell) == TRUE

\* cell.cell_type == 'code'
IsCode(cell) == cell.cell_type = "code"

\* The file objects of the two with statements.
InHandle == [path |-> notebook_path, mode |-> "r"]

OutHandle == [path |-> output_path, mode |-> "w"]

\* The record of one open() call.
Opening(h, ok) == [path |-> h.path, mode |-> h.mode, ok |-> ok]

\* Mutant: the file is left open.
WithExitLeak(hs, h) == hs

\* Leaving a with block, normally or by an exception, closes its file.
WithExit(hs, h) == hs \ {h}

----------------------------------------------------------------------------
(* The run *)

Init ==
    /\ argv \in Argvs
    /\ \E input \in {AbsentFile, TextFile(OldText)}
                        \cup {NotebookFile(c) : c \in Notebooks},
          old \in BOOLEAN :
          LET given == IF Len(argv) >= 1 /\ argv[1] # HELP_FLAG
                       THEN {argv[1]} ELSE {}
              there == {OtherPath}
                           \cup (IF old THEN JlPaths ELSE {})
                           \cup (IF input = AbsentFile THEN {} ELSE given)
          IN  disk = [p \in there \ (IF input = AbsentFile THEN given ELSE {}) |->
                         IF p \in given THEN input ELSE TextFile(OldText)]
    /\ pc = "parse_args"
    /\ notebook_path = <<>>
    /\ output_path = <<>>
    /\ nb = <<>>
    /\ idx = 1
    /\ handles = {}
    /\ stdout = <<>>
    /\ exc = "none"
    /\ exit_status = -1
    /\ runs = 1
    /\ diskPre = disk
    /\ opened = <<>>
    /\ history = <<>>

\* The process ends: by an uncaught exception e (status > 0) or normally.
Finish(e, status) ==
    /\ pc' = "done"
    /\ exc' = e
    /\ exit_status' = status
    /\ history' = Append(history, [exit_status |-> status, exc |-> e,
                                   notebook_path |-> notebook_path',
                                   output_path |-> output_path',
                                   pre |-> diskPre, disk |-> disk'])

\* parser.parse_args(): -h prints the help and exits 0; no positional or
\* more than one is a usage error, exit 2; else args.notebook is the argument.
ParseArgs ==
    /\ pc = "parse_args"
    /\ UNCHANGED <<argv, output_path, nb, idx, handles, disk, runs, diskPre, opened>>
    /\ \/ /\ \E i \in 1..Len(argv) : argv[i] = HELP_FLAG
          /\ stdout' = Append(stdout, <<"usage">>)
          /\ UNCHANGED notebook_path
          /\ Finish("SystemExit", 0)
       \/ /\ \A i \in 1..Len(argv) : argv[i] # HELP_FLAG
          /\ Len(argv) # 1
          /\ UNCHANGED <<stdout, notebook_path>>
          /\ Finish("SystemExit", 2)
       \/ /\ \A i \in 1..Len(argv) : argv[i] # HELP_FLAG
          /\ Len(argv) = 1
          /\ notebook_path' = argv[1]
          /\ pc' = "check_ext"
          /\ UNCHANGED <<stdout, exc, exit_status, history>>

\* Mutant: the suffix is tested without its dot.
HasNotebookExtensionNoDot(p) == EndsWith(p, Tail(DOT_IPYNB))

\* notebook_path.endswith(".ipynb")
HasNotebookExtension(p) == EndsWith(p, DOT_IPYNB)

\* if not notebook_path.endswith(".ipynb"): raise ValueError(...)
CheckExtension ==
    /\ pc = "check_ext"
    /\ UNCHANGED <<argv, notebook_path, output_path, nb, idx, handles, disk,
                   stdout, runs, diskPre, opened>>
    /\ \/ /\ ~HasNotebookExtension(notebook_path)
          /\ Finish("ValueError", 1)
       \/ /\ HasNotebookExtension(notebook_path)
          /\ pc' = "derive"
          /\ UNCHANGED <<exc, exit_status, history>>

\* Mutant: the extension is put back as it was.
DerivedPathKeepsExtension(p) == splitext(p)[1] \o splitext(p)[2]

\* Mutant: the confirmation is printed before the conversion is called.
DeriveAndPrint ==
    /\ pc = "derive"
    /\ output_path' = splitext(notebook_path)[1] \o DOT_JL
    /\ stdout' = Append(stdout, <<"Converted", notebook_path, "to", output_path'>>)
    /\ pc' = "open_in"
    /\ UNCHANGED <<argv, notebook_path, nb, idx, handles, disk, exc,
                   exit_status, runs, diskPre, opened, history>>

\* os.path.splitext(notebook_path)[0] + ".jl"
DerivedPath(p) == splitext(p)[1] \o DOT_JL

DeriveOutputPath ==
    /\ pc = "derive"
    /\ output_path' = DerivedPath(notebook_path)
    /\ pc' = "open_in"
    /\ UNCHANGED <<argv, notebook_path, nb, idx, handles, disk, stdout, exc,
                   exit_status, runs, diskPre, opened, history>>

\* Mutant: both files are opened by the one with statement, the output
\* before the notebook has been read.
OpenBothFiles ==
    /\ pc = "open_in"
    /\ UNCHANGED <<argv, notebook_path, output_path, nb, idx, stdout, runs,
                   diskPre>>
    /\ \/ /\ notebook_path \notin DOMAIN disk
          /\ opened' = Append(opened, Opening(InHandle, FALSE))
          /\ UNCHANGED <<handles, disk>>
          /\ Finish("FileNotFoundError", 1)
       \/ /\ notebook_path \in DOMAIN disk
          /\ opened' = Append(opened, Opening(InHandle, TRUE))
          /\ disk' = OpenForWriting(disk, output_path)
          /\ handles' = handles \cup {InHandle}
          /\ pc' = "read"
          /\ UNCHANGED <<exc, exit_status, history>>

\* with open(notebook_path, 'r', ...) as f: fails when the file is absent,
\* and may fail when it is present (permissions, a directory, ...).
OpenNotebook ==
    /\ pc = "open_in"
    /\ UNCHANGED <<argv, notebook_path, output_path, nb, idx, disk, stdout,
                   runs, diskPre>>
    /\ \/ /\ notebook_path \notin DOMAIN disk
          /\ opened' = Append(opened, Opening(InHandle, FALSE))
          /\ UNCHANGED handles
          /\ Finish("FileNotFoundError", 1)
       \/ /\ notebook_path \in DOMAIN disk
          /\ opened' = Append(opened, Opening(InHandle, FALSE))
          /\ UNCHANGED handles
          /\ Finish("OSError", 1)
       \/ /\ notebook_path \in DOMAIN disk
          /\ opened' = Append(opened, Opening(InHandle, TRUE))
          /\ handles' = handles \cup {InHandle}
          /\ pc' = "read"
          /\ UNCHANGED <<exc, exit_status, history>>

\* nb = nbformat.read(f, as_version=4): raises on a file that is not a
\* notebook document; the exception leaves the with block, closing f.
\* A file of kind "notebook" is one that nbformat reads as version 4; what
\* nbformat does with other format versions is inside that library and is
\* not modelled.
ReadNotebook ==
    /\ pc = "read"
    /\ UNCHANGED <<argv, notebook_path, output_path, idx, disk, stdout, runs,
                   diskPre, opened>>
    /\ \/ /\ disk[notebook_path].kind # "notebook"
          /\ handles' = WithExit(handles, InHandle)
          /\ UNCHANGED nb
          /\ Finish("NotJSONError", 1)
       \/ /\ disk[notebook_path].kind = "notebook"
          /\ nb' = disk[notebook_path].cells
          /\ pc' = "close_in"
          /\ UNCHANGED <<handles, exc, exit_status, history>>

\* the end of the first with block
CloseNotebook ==
    /\ pc = "close_in"
    /\ handles' = WithExit(handles, InHandle)
    /\ pc' = "open_out"
    /\ UNCHANGED <<argv, notebook_path, output_path, nb, idx, disk, stdout, exc,
                   exit_status, runs, diskPre, opened, history>>

\* with open(output_path, 'w', ...) as f: may fail (permissions, a missing
\* directory), leaving the file system as it is.
OpenOutput ==
    /\ pc = "open_out"
    /\ UNCHANGED <<argv, notebook_path, output_path, nb, stdout, runs, diskPre>>
    /\ \/ /\ opened' = Append(opened, Opening(OutHandle, FALSE))
          /\ UNCHANGED <<handles, disk, idx>>
          /\ Finish("OSError", 1)
       \/ /\ opened' = Append(opened, Opening(OutHandle, TRUE))
          /\ disk' = OpenForWriting(disk, output_path)
          /\ handles' = handles \cup {OutHandle}
          /\ idx' = 1
          /\ pc' = "loop"
          /\ UNCHANGED <<exc, exit_status, history>>

\* One iteration of: for cell in nb.cells: if cell.cell_type == 'code':
\* f.write(cell.source + '\n\n').  A failing write leaves the with block.
LoopCell ==
    /\ pc = "loop"
    /\ idx <= Len(nb)
    /\ UNCHANGED <<argv, notebook_path, output_path, nb, stdout, runs, diskPre,
                   opened>>
    /\ \/ /\ IsCode(nb[idx])
          /\ disk' = FileWrite(disk, output_path, Block(nb[idx]))
          /\ idx' = idx + 1
          /\ UNCHANGED <<pc, handles, exc, exit_status, history>>
       \/ /\ IsCode(nb[idx])
          /\ handles' = WithExit(handles, OutHandle)
          /\ UNCHANGED <<disk, idx>>
          /\ Finish("OSError", 1)
       \/ /\ ~IsCode(nb[idx])
          /\ idx' = idx + 1
          /\ UNCHANGED <<pc, handles, disk, exc, exit_status, history>>

\* the end of the second with block, and the return to main
CloseOutput ==
    /\ pc = "loop"
    /\ idx > Len(nb)
    /\ handles' = WithExit(handles, OutHandle)
    /\ pc' = "print"
    /\ UNCHANGED <<argv, notebook_path, output_path, nb, idx, disk, stdout, exc,
                   exit_status, runs, diskPre, opened, history>>

\* f"Converted {notebook_path} to {output_path}"
Confirmation == <<"Converted", notebook_path, "to", output_path>>

\* print(...), then main returns and the process exits 0
PrintConverted ==
    /\ pc = "print"
    /\ stdout' = Append(stdout, Confirmation)
    /\ UNCHANGED <<argv, notebook_path, output_path, nb, idx, handles, disk,
                   runs, diskPre, opened>>
    /\ Finish("none", 0)

\* The script is started again with the same arguments, on the file system
\* the previous run left.
Rerun ==
    /\ pc = "done"
    /\ runs < MaxRuns
    /\ runs' = runs + 1
    /\ pc' = "parse_args"
    /\ notebook_path' = <<>>
    /\ output_path' = <<>>
    /\ nb' = <<>>
    /\ idx' = 1
    /\ handles' = {}
    /\ stdout' = <<>>
    /\ exc' = "none"
    /\ exit_status' = -1
    /\ diskPre' = disk
    /\ opened' = <<>>
    /\ UNCHANGED <<argv, disk, history>>

Next ==
    \/ ParseArgs
    \/ CheckExtension
    \/ DeriveOutputPath
    \/ OpenNotebook
    \/ ReadNotebook
    \/ CloseNotebook
    \/ OpenOutput
    \/ LoopCell
    \/ CloseOutput
    \/ PrintConverted
    \/ Rerun

Spec == Init /\ [][Next]_vars

----------------------------------------------------------------------------
(* What the properties speak of *)

\* The run ended by printing the confirmation and exiting 0.
Succeeded == pc = "done" /\ exit_status = 0 /\ exc = "none"

\* The output was opened for writing in this run, and the open returned.
OutOpenedOk == \E i \in DOMAIN opened : opened[i].mode = "w" /\ opened[i].ok

\* The cells of the notebook the run was given, as the file held them when
\* the run started.
InputCells == Lookup(diskPre, notebook_path).cells

\* The text of the destination now, and when the run started.
Destination == Lookup(disk, output_path)

DestinationPre == Lookup(diskPre, output_path)

\* payload + "\n\n" for each code cell, in order.
RECURSIVE ExpectedOutput(_)
ExpectedOutput(cells) ==
    IF cells = <<>>
    THEN <<>>
    ELSE (IF Head(cells).cell_type = "code"
          THEN Head(cells).source \o <<"\n", "\n">>
          ELSE <<>>) \o ExpectedOutput(Tail(cells))

CodeCellCount(cells) ==
    Cardinality({i \in DOMAIN cells : cells[i].cell_type = "code"})

\* p ends in ".ipynb"
EndsInIpynb(p) ==
    /\ Len(p) >= 6
    /\ <<p[Len(p) - 5], p[Len(p) - 4], p[Len(p) - 3], p[Len(p) - 2],
         p[Len(p) - 1], p[Len(p)]>> = <<".", "i", "p", "y", "n", "b">>

----------------------------------------------------------------------------
(* Properties *)

\* C1: after a successful conversion the output file holds exactly the
\* concatenation, in cell order, of payload + "\n\n" for each code cell of
\* the notebook, and nothing else.
C1_OutputIsCodeCellsInOrder ==
    Succeeded => Destination = TextFile(ExpectedOutput(InputCells))

\* A successful conversion of [code, non-code, code] with two different
\* payloads, one of them with an embedded newline, over an existing file.
C1_Witness ==
    /\ Succeeded
    /\ Len(InputCells) = 3
    /\ InputCells[1].cell_type = "code"
    /\ InputCells[2].cell_type # "code"
    /\ InputCells[3].cell_type = "code"
    /\ InputCells[1].source = <<"y", "\n", "\t", "z">>
    /\ InputCells[3].source = <<"x">>
    /\ DestinationPre.kind = "text"

\* C2: a path that does not end in ".ipynb" is rejected by the ValueError of
\* the extension check (the spec's InvalidInputError) before any file
\* access: no file is opened and the file system is untouched.
C2_RejectedBeforeFileAccess ==
    (notebook_path # <<>> /\ ~EndsInIpynb(notebook_path)) =>
        /\ opened = <<>>
        /\ handles = {}
        /\ disk = diskPre
        /\ pc \in {"check_ext", "done"}
        /\ pc = "done" => (exc = "ValueError" /\ exit_status = 1 /\ stdout = <<>>)

\* The path "aipynb" (no dot) has been rejected.
C2_Witness ==
    /\ pc = "done"
    /\ exc = "ValueError"
    /\ notebook_path = <<"a", "i", "p", "y", "n", "b">>
    /\ notebook_path \in DOMAIN disk

\* The run failed while opening, reading or parsing the input.
InputFailed ==
    /\ pc = "done"
    /\ \/ exc \in {"FileNotFoundError", "NotJSONError"}
       \/ exc = "OSError" /\ Len(opened) = 1

\* C3: when the input cannot be opened or parsed the run fails and the
\* destination is as it was before the run (absent or with its old
\* content); the output is opened only after the read has succeeded.
C3_FailedReadLeavesDestination ==
    /\ InputFailed =>
          /\ exit_status # 0
          /\ Destination = DestinationPre
          /\ disk = diskPre
    /\ (\E i \in DOMAIN opened : opened[i].mode = "w") =>
          /\ Len(opened) = 2
          /\ opened[1].mode = "r" /\ opened[1].ok
          /\ nb = InputCells

\* A parse failure with a file already at the destination.
C3_Witness ==
    /\ InputFailed
    /\ exc = "NotJSONError"
    /\ DestinationPre.kind = "text"

\* A finished run that converted, its input cells and what it left at the
\* destination.
ConvertedRun(h) == h.exit_status = 0 /\ h.exc = "none"

RunCells(h) == Lookup(h.pre, h.notebook_path).cells

RunDestination(h) == Lookup(h.disk, h.output_path)

\* C4: the conversion is idempotent on the destination: all successful runs
\* on the same input leave the same content there, whatever was there
\* before (nothing is appended), and a notebook without code cells leaves a
\* zero-byte file on every run.
C4_Idempotent ==
    /\ \A i, j \in DOMAIN history :
          (ConvertedRun(history[i]) /\ ConvertedRun(history[j])) =>
              RunDestination(history[i]) = RunDestination(history[j])
    /\ \A i \in DOMAIN history :
          (ConvertedRun(history[i]) /\ CodeCellCount(RunCells(history[i])) = 0) =>
              RunDestination(history[i]) = TextFile(<<>>)

\* Two successful runs on a notebook with a code cell, the first over an
\* old file, the second over the output of the first.
C4_Witness ==
    /\ Len(history) = 2
    /\ ConvertedRun(history[1])
    /\ ConvertedRun(history[2])
    /\ CodeCellCount(RunCells(history[1])) >= 1
    /\ Lookup(history[1].pre, history[1].output_path).text = OldText
    /\ Lookup(history[2].pre, history[2].output_path).text # <<>>

\* C5: the output path is the input path with its trailing ".ipynb"
\* replaced by ".jl" and nothing else changed, for every accepted path.
C5_OutputReplacesExtension ==
    output_path # <<>> =>
        output_path = SubSeq(notebook_path, 1, Len(notebook_path) - 6)
                          \o <<".", "j", "l">>

\* The files whose content differs from what it was when the run started.
ChangedFiles ==
    {p \in DOMAIN disk \cup DOMAIN diskPre : Lookup(disk, p) # Lookup(diskPre, p)}

\* C6: a run touches one file only, the derived output path: every other
\* file, the input included, is as it was when the run started, in every
\* state; the output path differs from the input path; and a successful
\* run leaves a file at the output path.
C6_OnlyOutputChanges ==
    /\ \A p \in ChangedFiles : p = output_path /\ OutOpenedOk
    /\ Lookup(disk, notebook_path) = Lookup(diskPre, notebook_path)
    /\ output_path # <<>> => output_path # notebook_path
    /\ \A i \in DOMAIN opened : opened[i].mode = "w" => opened[i].path = output_path
    /\ Succeeded => output_path \in DOMAIN disk

\* A successful run that created the output file, next to other files.
C6_Witness ==
    /\ Succeeded
    /\ ChangedFiles = {output_path}
    /\ output_path \notin DOMAIN diskPre
    /\ Cardinality(DOMAIN disk) >= 3

\* A console line that is the confirmation naming both paths.
IsConfirmation(line) ==
    /\ Len(line) = 4
    /\ line[1] = "Converted"
    /\ line[2] = notebook_path
    /\ line[4] = output_path

ConfirmationCount ==
    Cardinality({i \in DOMAIN stdout : IsConfirmation(stdout[i])})

\* Success: the confirmation is the one line printed, the output is
\* complete and closed, the status is 0.
SuccessOutcome ==
    /\ exit_status = 0
    /\ ConfirmationCount = 1
    /\ Len(stdout) = 1
    /\ handles = {}
    /\ OutOpenedOk
    /\ Destination.text = ExpectedOutput(InputCells)

\* Failure: no confirmation, a non-zero status.
FailureOutcome ==
    /\ exit_status > 0
    /\ exc # "none"
    /\ ConfirmationCount = 0

\* Help: the usage text and status 0, no confirmation, no file touched.
HelpOutcome ==
    /\ \E i \in DOMAIN argv : argv[i] = <<"-", "h">>
    /\ exit_status = 0
    /\ exc = "SystemExit"
    /\ ConfirmationCount = 0
    /\ opened = <<>>
    /\ disk = diskPre

\* While the run is going it can take a step, nothing is confirmed yet, and
\* the loop index stays within the cells: the run ends.
RunProgresses ==
    pc # "done" =>
        /\ ENABLED Next
        /\ ConfirmationCount = 0
        /\ exit_status = -1
        /\ idx \in 1..(Len(nb) + 1)

\* C7 as stated: every run ends in success (confirmation printed once,
\* after the output is written and closed, status 0) or in failure (no
\* confirmation, status non-zero).
C7_TwoOutcomes ==
    /\ RunProgresses
    /\ pc = "done" => (SuccessOutcome \/ FailureOutcome)

\* C7 as amended: every run ends in success, in failure (an argument error
\* included), or, when -h is among the arguments, with the usage text,
\* status 0, no confirmation and no file touched.
C7_ThreeOutcomes ==
    /\ RunProgresses
    /\ pc = "done" =>
          \/ SuccessOutcome /\ ~FailureOutcome /\ ~HelpOutcome
          \/ FailureOutcome /\ ~SuccessOutcome /\ ~HelpOutcome
          \/ HelpOutcome /\ ~SuccessOutcome /\ ~FailureOutcome

\* A success that printed the confirmation after writing two blocks.
C7_Witness ==
    /\ pc = "done"
    /\ SuccessOutcome
    /\ CodeCellCount(InputCells) = 2
    /\ runs = 1

\* C8: no file handle is open once the run has ended, however it ended; at
\* most one handle is open at any time, and the input handle is closed
\* before the output is opened.
C8_HandlesReleased ==
    /\ pc = "done" => handles = {}
    /\ Cardinality(handles) <= 1
    /\ (\E i \in DOMAIN opened : opened[i].mode = "w") =>
          \A h \in handles : h.mode # "r"
    /\ \A h \in handles : \E i \in DOMAIN opened :
          opened[i].ok /\ opened[i].path = h.path /\ opened[i].mode = h.mode

\* A run ended by a write error in the second iteration of the loop.
C8_Witness ==
    /\ pc = "done"
    /\ exc = "OSError"
    /\ OutOpenedOk
    /\ idx = 2
    /\ handles = {}

\* C10: from the successful open of the destination to the end of the run
\* the destination holds the blocks of the first k code cells, for a k: a
\* prefix of the expected output with nothing of the old content.
C10_DestinationIsPrefix ==
    OutOpenedOk =>
        \E k \in 0..Len(InputCells) :
            Destination = TextFile(ExpectedOutput(SubSeq(InputCells, 1, k)))

\* A run that failed in the write step after one block, over an old file:
\* a truncated prefix is left.
C10_Witness ==
    /\ pc = "done"
    /\ exit_status = 1
    /\ OutOpenedOk
    /\ DestinationPre.text = OldText
    /\ Destination.text # <<>>
    /\ Len(Destination.text) < Len(ExpectedOutput(InputCells))

====
